---------------------------- MODULE Spec2Model ----------------------------
(***************************************************************************)
(* A model of the git repository manager gcl.py (Git/gcl/gcl.py and its    *)
(* older copy Git/gcl.py): the status probes, process_repo, the TUI's key  *)
(* handling and the command line dispatch.                                 *)
(*                                                                         *)
(* git itself is not modelled: every git invocation (run_git) returns an   *)
(* exit code and a number of output lines chosen by the environment.       *)
(***************************************************************************)
EXTENDS Integers, Sequences, FiniteSets, TLC

(***************************************************************************)
(* Bounds of the model.                                                    *)
(***************************************************************************)
\* the largest number of lines one git command prints
MaxOut == 2
\* how many of the entries of ALL_REPOS the model keeps (the first ones)
NRepos == 2
\* the largest number of words after the command on the command line
MaxArgs == 2
\* the height of the terminal, in rows
ScreenRows == 50

(***************************************************************************)
(* run_git: what one git invocation can return.  ret is the exit code (0,  *)
(* 1, or git's fatal 128; a timeout or an exception is reported as 1), out *)
(* the number of lines of stdout + stderr, none of them blank.             *)
(***************************************************************************)
RetCodes == {0, 1, 128}

Outcome == [ret : RetCodes, out : 0..MaxOut]

\* the text git printed: out non-blank lines
OutputText(n) == [i \in 1..n |-> "line"]

IsBlank(line) == line = ""

RECURSIVE LStrip(_)
LStrip(text) ==
    IF text # <<>> /\ IsBlank(Head(text)) THEN LStrip(Tail(text)) ELSE text

RECURSIVE RStrip(_)
RStrip(text) ==
    IF text # <<>> /\ IsBlank(text[Len(text)])
    THEN RStrip(SubSeq(text, 1, Len(text) - 1))
    ELSE text

\* str.strip() on a text held as its lines: leading and trailing blank lines go
Strip(text) == RStrip(LStrip(text))

\* len(out.strip().split('\n')) if out.strip() else 0
CountLines(text) == Len(Strip(text))

\* one recorded git invocation: git -C dir args..., with what it returned
GitCall(dir, args, o) == [dir |-> dir, args |-> args, ret |-> o.ret, out |-> o.out]

(***************************************************************************)
(* A status string: text, with the count n that an f-string puts in front  *)
(* of it ("3 Unpushed"); n = 0 for the fixed strings.                      *)
(***************************************************************************)
Status(text) == [n |-> 0, text |-> text]

StatusN(n, text) == [n |-> n, text |-> text]

(***************************************************************************)
(* get_repo_local_status.  env gives the outcome of each of its three git  *)
(* calls should it be made; the result is the status and the calls made.   *)
(***************************************************************************)
LocalEnv == [diff_index : Outcome, rev_parse : Outcome, log : Outcome]

\* a variant that asks for the upstream before it looks for uncommitted changes
get_repo_local_status_upstream_first(is_dir, env) ==
    LET c1 == GitCall("repo_dir", <<"diff-index", "--quiet", "HEAD", "--">>, env.diff_index)
        c2 == GitCall("repo_dir", <<"rev-parse", "@{u}">>, env.rev_parse)
        c3 == GitCall("repo_dir", <<"log", "@{u}..", "--oneline">>, env.log)
        unpushed == CountLines(OutputText(env.log.out))
    IN  IF ~is_dir THEN [status |-> Status("Not Cloned"), trace |-> <<>>]
        ELSE IF c2.ret # 0 THEN [status |-> Status("No Remote"), trace |-> <<c2>>]
        ELSE IF c1.ret # 0 THEN [status |-> Status("Uncommitted"), trace |-> <<c2, c1>>]
        ELSE IF unpushed > 0
             THEN [status |-> StatusN(unpushed, "Unpushed"), trace |-> <<c2, c1, c3>>]
        ELSE [status |-> Status("OK"), trace |-> <<c2, c1, c3>>]

get_repo_local_status(is_dir, env) ==
    LET c1 == GitCall("repo_dir", <<"diff-index", "--quiet", "HEAD", "--">>, env.diff_index)
        c2 == GitCall("repo_dir", <<"rev-parse", "@{u}">>, env.rev_parse)
        c3 == GitCall("repo_dir", <<"log", "@{u}..", "--oneline">>, env.log)
        unpushed == CountLines(OutputText(env.log.out))
    IN  IF ~is_dir THEN [status |-> Status("Not Cloned"), trace |-> <<>>]
        ELSE IF c1.ret # 0 THEN [status |-> Status("Uncommitted"), trace |-> <<c1>>]
        ELSE IF c2.ret # 0 THEN [status |-> Status("No Remote"), trace |-> <<c1, c2>>]
        ELSE IF unpushed > 0
             THEN [status |-> StatusN(unpushed, "Unpushed"), trace |-> <<c1, c2, c3>>]
        ELSE [status |-> Status("OK"), trace |-> <<c1, c2, c3>>]

(***************************************************************************)
(* get_repo_remote_status (do_fetch is the newer file's parameter, True in *)
(* every call of the program; the older file always fetches).              *)
(***************************************************************************)
RemoteEnv == [rev_parse : Outcome, fetch : Outcome, log : Outcome]

\* a variant that fetches before it knows the branch tracks an upstream
get_repo_remote_status_fetch_first(is_dir, do_fetch, env) ==
    LET c1 == GitCall("repo_dir", <<"rev-parse", "@{u}">>, env.rev_parse)
        c2 == GitCall("repo_dir", <<"fetch", "--quiet">>, env.fetch)
        c3 == GitCall("repo_dir", <<"log", "HEAD..@{u}", "--oneline">>, env.log)
        fetched == IF do_fetch THEN <<c2>> ELSE <<>>
        unpulled == CountLines(OutputText(env.log.out))
    IN  IF ~is_dir THEN [status |-> Status("Not Cloned"), trace |-> <<>>]
        ELSE IF do_fetch /\ c2.ret # 0
             THEN [status |-> Status("Fetch Failed"), trace |-> <<c2>>]
        ELSE IF c1.ret # 0
             THEN [status |-> Status("No Remote"), trace |-> fetched \o <<c1>>]
        ELSE IF unpulled > 0
             THEN [status |-> StatusN(unpulled, "To Pull"),
                   trace |-> fetched \o <<c1, c3>>]
        ELSE [status |-> Status("Up to Date"), trace |-> fetched \o <<c1, c3>>]

get_repo_remote_status(is_dir, do_fetch, env) ==
    LET c1 == GitCall("repo_dir", <<"rev-parse", "@{u}">>, env.rev_parse)
        c2 == GitCall("repo_dir", <<"fetch", "--quiet">>, env.fetch)
        c3 == GitCall("repo_dir", <<"log", "HEAD..@{u}", "--oneline">>, env.log)
        fetched == IF do_fetch THEN <<c2>> ELSE <<>>
        unpulled == CountLines(OutputText(env.log.out))
    IN  IF ~is_dir THEN [status |-> Status("Not Cloned"), trace |-> <<>>]
        ELSE IF c1.ret # 0 THEN [status |-> Status("No Remote"), trace |-> <<c1>>]
        ELSE IF do_fetch /\ c2.ret # 0
             THEN [status |-> Status("Fetch Failed"), trace |-> <<c1, c2>>]
        ELSE IF unpulled > 0
             THEN [status |-> StatusN(unpulled, "To Pull"),
                   trace |-> <<c1>> \o fetched \o <<c3>>]
        ELSE [status |-> Status("Up to Date"), trace |-> <<c1>> \o fetched \o <<c3>>]

(***************************************************************************)
(* process_repo, as a table over the places (sites) where it calls run_git.*)
(* GclNew is Git/gcl/gcl.py, GclOld is Git/gcl.py.                               *)
(***************************************************************************)
GclNew == "Git/gcl/gcl.py"
GclOld == "Git/gcl.py"
Versions == {GclNew, GclOld}

Actions == {"sync", "fetch", "pull", "push", "status", "untracked", "ignored"}

Strategies == {"ours", "theirs"}

read_only_actions == {"status", "untracked", "ignored"}

\* the first lines of `git status --short` and the files that are listed
StatusShown == 5
FilesShown == 10

Min(a, b) == IF a < b THEN a ELSE b

\* a log line: its text, and the number or the word an f-string puts into it
L(text) == [text |-> text, n |-> 0, s |-> ""]
LN(text, n) == [text |-> text, n |-> n, s |-> ""]
LS(text, str) == [text |-> text, n |-> 0, s |-> str]

\* if output.strip(): for line in output.strip().split('\n'): logs.append(...)
OutLines(out) == [i \in 1..CountLines(OutputText(out)) |-> L("    {line}")]

\* f'--strategy-option={strategy}'
StrategyOption(strategy) ==
    CASE strategy = "ours" -> "--strategy-option=ours"
      [] strategy = "theirs" -> "--strategy-option=theirs"
      [] OTHER -> "--strategy-option={strategy}"

\* the sites whose output process_repo reads; of the others only ret matters
OutputSites == {"clone", "commit1", "fetch", "pull", "commit2", "push",
                "status_short", "log", "ls_files"}

SiteOutcomes(site) ==
    IF site \in OutputSites THEN Outcome ELSE [ret : RetCodes, out : {0}]

\* the arguments of the run_git call at a site
Args(ver, action, site, strategy) ==
    CASE site = "clone" -> <<"clone", "{repo_url}", "{repo_dir}">>
      [] site = "diff" -> <<"diff-index", "--quiet", "HEAD", "--">>
      [] site = "add1" -> <<"add", ".">>
      [] site = "commit1" ->
            IF ver = GclNew
            THEN IF action = "sync" THEN <<"commit", "-m", "Auto-commit before sync">>
                 ELSE <<"commit", "-m", "Auto-commit before pull">>
            ELSE <<"commit", "-q", "-m", "Auto-commit before pull">>
      [] site = "fetch" -> <<"fetch">>
      [] site = "pull" -> <<"pull", "--no-rebase", StrategyOption(strategy)>>
      [] site = "add2" -> <<"add", ".">>
      [] site = "cached" -> <<"diff-index", "--quiet", "--cached", "HEAD", "--">>
      [] site = "commit2" ->
            IF ver = GclNew THEN <<"commit", "-m", "fixes">>
            ELSE <<"commit", "-q", "-m", "fixes">>
      [] site = "push" -> <<"push">>
      [] site = "status_short" -> <<"status", "--short">>
      [] site = "log" -> <<"log", "@{u}..", "--oneline">>
      [] site = "rev_parse" -> <<"rev-parse", "@{u}">>
      [] site = "ls_files" ->
            IF action = "untracked"
            THEN <<"ls-files", "--others", "--exclude-standard">>
            ELSE <<"ls-files", "--others", "--ignored", "--exclude-standard">>

\* clone runs in the working directory, everything else in the repository
DirOf(site) == IF site = "clone" THEN "work_dir" ELSE "repo_path"

\* the first site of an action in an existing repository
First(action) ==
    CASE action = "sync" -> "diff"
      [] action = "push" -> "add2"
      [] action = "pull" -> "diff"
      [] action = "status" -> "diff"
      [] action = "fetch" -> "fetch"
      [] action \in {"untracked", "ignored"} -> "ls_files"

\* a variant of the sync that pulls without fetching first
AfterAutoCommit_no_fetch(ver) == "pull"

\* a variant in which both files fetch before the pull of a sync
AfterAutoCommit_fetch_in_both(ver) == "fetch"

\* where the sync goes once its auto-commit is done or was not needed
AfterAutoCommit(ver) == IF ver = GclNew THEN "fetch" ELSE "pull"

\* a variant of the sync that commits and pushes whatever the pull returned
AfterPull_ignores_failure(action, o) ==
    IF action = "sync" THEN "add2" ELSE "return"

\* where process_repo goes after its pull: a sync goes on only if it exited 0
AfterPull(action, o) ==
    IF action = "sync" THEN (IF o.ret = 0 THEN "add2" ELSE "return") ELSE "return"

\* the site after `site`, given what its git call returned ("return": none)
Succ(ver, action, site, o) ==
    CASE site = "clone" -> "return"
      [] site = "diff" /\ action = "sync" ->
            IF o.ret # 0 THEN "add1" ELSE AfterAutoCommit(ver)
      [] site = "diff" /\ action = "pull" -> IF o.ret # 0 THEN "add1" ELSE "pull"
      [] site = "diff" /\ action = "status" ->
            IF o.ret # 0 THEN "status_short" ELSE "log"
      [] site = "add1" -> "commit1"
      [] site = "commit1" /\ action = "sync" ->
            IF o.ret = 0 THEN AfterAutoCommit(ver) ELSE "return"
      [] site = "commit1" /\ action = "pull" -> "pull"
      [] site = "fetch" /\ action = "sync" -> IF o.ret = 0 THEN "pull" ELSE "return"
      [] site = "fetch" /\ action = "fetch" -> "return"
      [] site = "pull" -> AfterPull(action, o)
      [] site = "add2" -> "cached"
      [] site = "cached" -> IF o.ret # 0 THEN "commit2" ELSE "push"
      [] site = "commit2" -> "push"
      [] site = "push" -> "return"
      [] site = "status_short" -> "log"
      [] site = "log" ->
            IF CountLines(OutputText(o.out)) > 0 THEN "return" ELSE "rev_parse"
      [] site = "rev_parse" -> "return"
      [] site = "ls_files" -> "return"

\* what is logged on the way to a site, before its git call
Pre(ver, action, site, strategy) ==
    CASE site = "clone" -> <<L("  Cloning '{repo_dir}'...")>>
      [] site = "add1" ->
            IF ver = GclNew /\ action = "sync"
            THEN <<L("  Found uncommitted changes, committing before sync...")>>
            ELSE <<L("  Found uncommitted changes, committing before pull...")>>
      [] site = "fetch" ->
            IF action = "sync" THEN <<L("  Fetching latest changes from remote...")>>
            ELSE <<L("  Fetching in '{repo_dir}'...")>>
      [] site = "pull" -> <<LS("  Pulling with strategy: {strategy}", strategy)>>
      [] site = "commit2" ->
            <<L("  Found changes, committing with default message 'fixes'...")>>
      [] site = "push" -> <<L("  Pushing changes...")>>
      [] site = "diff" /\ action = "status" -> <<L("  Checking '{repo_dir}'")>>
      [] site = "ls_files" -> <<L("  Checking '{repo_dir}'")>>
      [] OTHER -> <<>>

\* the lines of git's output that the newer file copies into the log
Echo(ver, o) == IF ver = GclNew THEN OutLines(o.out) ELSE <<>>

\* for line in status_output.strip().split('\n')[:5]: split gives one (empty)
\* line for an empty output
ShortLines(o) ==
    LET k == CountLines(OutputText(o.out))
    IN  [i \in 1..(IF k = 0 THEN 1 ELSE Min(k, StatusShown)) |-> L("    {line}")]

FileLines(o) ==
    [i \in 1..Min(CountLines(OutputText(o.out)), FilesShown) |-> L("    {f}")]

\* what is logged once the git call of a site has returned
Post(ver, action, site, o) ==
    CASE site = "clone" ->
            IF ver = GclNew
            THEN Echo(ver, o) \o (IF o.ret = 0 THEN <<L("  v Clone complete.")>>
                                  ELSE <<L("  x Clone failed.")>>)
            ELSE IF o.ret = 0 THEN <<L("  v Clone complete.")>>
                 ELSE <<L("  x Clone failed: {output}")>>
      [] site = "commit1" /\ action = "sync" ->
            Echo(ver, o) \o (IF o.ret = 0 THEN <<L("  v Changes committed.")>>
                             ELSE <<L("  x Commit failed.")>>)
      [] site = "commit1" /\ action = "pull" ->
            Echo(ver, o) \o (IF o.ret = 0 THEN <<L("  v Changes committed.")>> ELSE <<>>)
      [] site = "fetch" ->
            Echo(ver, o) \o (IF o.ret = 0 THEN <<L("  v Fetch complete.")>>
                             ELSE <<L("  x Fetch failed.")>>)
      [] site = "pull" ->
            Echo(ver, o) \o (IF o.ret = 0 THEN <<L("  v Pull complete.")>>
                             ELSE IF ver = GclNew THEN <<L("  x Pull failed.")>>
                             ELSE <<L("  x Pull failed: {output[:200]}")>>)
      [] site = "commit2" ->
            Echo(ver, o) \o (IF o.ret = 0 THEN <<L("  v Commit complete.")>> ELSE <<>>)
      [] site = "push" ->
            Echo(ver, o) \o (IF o.ret = 0 THEN <<L("  v Push complete.")>>
                             ELSE <<L("  x Push failed.")>>)
      [] site = "diff" /\ action = "status" ->
            IF o.ret # 0 THEN <<L("  ! Has uncommitted changes")>>
            ELSE <<L("  v Working tree clean")>>
      [] site = "status_short" -> ShortLines(o)
      [] site = "log" ->
            LET unpushed == CountLines(OutputText(o.out))
            IN  IF unpushed > 0
                THEN <<LN("  ! Has {unpushed} unpushed commit(s)", unpushed)>>
                ELSE <<>>
      [] site = "rev_parse" ->
            IF o.ret = 0 THEN <<L("  v All commits pushed")>>
            ELSE <<L("  ! Branch does not track a remote")>>
      [] site = "ls_files" ->
            LET k == CountLines(OutputText(o.out))
            IN  IF k > 0
                THEN <<LN(IF action = "untracked" THEN "  ! Has {n} untracked file(s)"
                          ELSE "  ! Has {n} ignored file(s)", k)>> \o FileLines(o)
                ELSE IF action = "untracked" THEN <<L("  v No untracked files")>>
                     ELSE <<L("  v No ignored files")>>
      [] OTHER -> <<>>

\* a variant that clones whatever the action is
ClonesFor_always(ver, action) == TRUE

\* does process_repo clone a missing repository for this action?
ClonesFor(ver, action) == ver = GclOld \/ action \notin read_only_actions

\* the site process_repo goes to first ("return": it issues no git command)
Entry(ver, action, is_dir) ==
    IF is_dir THEN First(action)
    ELSE IF ClonesFor(ver, action) THEN "clone" ELSE "return"

\* the places where process_repo calls run_git
Sites == {"clone", "diff", "add1", "commit1", "fetch", "pull", "add2", "cached",
          "commit2", "push", "status_short", "log", "rev_parse", "ls_files"}

RECURSIVE process_repo(_, _, _, _, _)
\* the run_git calls process_repo makes from a site on, in order, when the git
\* command of each site returns what git_results gives for it
process_repo(ver, action, strategy, site, git_results) ==
    IF site = "return" THEN <<>>
    ELSE LET o == git_results[site]
         IN  <<GitCall(DirOf(site), Args(ver, action, site, strategy), o) @@ [site |-> site]>>
               \o process_repo(ver, action, strategy, Succ(ver, action, site, o), git_results)

(***************************************************************************)
(* State of one process_repo call: its arguments (call), the position of   *)
(* the call (pc: "idle", a site whose git command is next, or "return"),   *)
(* the git commands run so far (trace) and the log lines so far (logs).    *)
(***************************************************************************)
VARIABLES call, pc, trace, logs

CallInputs ==
    [ver : Versions, action : Actions, strategy : Strategies, is_dir : BOOLEAN]

\* process_repo is entered: the header line, the directory check
PrEnter ==
    /\ pc = "idle"
    /\ LET site == Entry(call.ver, call.action, call.is_dir)
       IN  /\ pc' = site
           /\ logs' = <<L("==> Processing '{repo_dir}'")>>
                        \o (IF site = "return"
                            THEN <<L("  ! Repository not cloned yet")>>
                            ELSE Pre(call.ver, call.action, site, call.strategy))
    /\ trace' = <<>>
    /\ UNCHANGED call

\* one blocking run_git call at the current site, and the code up to the next
PrGit ==
    /\ pc \notin {"idle", "return"}
    /\ \E o \in SiteOutcomes(pc) :
         LET next == Succ(call.ver, call.action, pc, o)
         IN  /\ trace' = Append(trace,
                    GitCall(DirOf(pc), Args(call.ver, call.action, pc, call.strategy), o)
                      @@ [site |-> pc])
             /\ logs' = logs \o Post(call.ver, call.action, pc, o)
                          \o (IF next = "return" THEN <<>>
                              ELSE Pre(call.ver, call.action, next, call.strategy))
             /\ pc' = next
    /\ UNCHANGED call

(***************************************************************************)
(* State of the status probes: the repository a probe is asked about       *)
(* (probe), and what the last call returned (probed).                      *)
(***************************************************************************)
VARIABLES probe, probed

NoProbe == [fn |-> "none"]

ProbeInputs ==
    [fn : {"local"}, is_dir : BOOLEAN, do_fetch : {TRUE}, env : LocalEnv]
      \cup [fn : {"remote"}, is_dir : BOOLEAN, do_fetch : BOOLEAN, env : RemoteEnv]

CallLocalStatus ==
    /\ probe.fn = "local"
    /\ probed.fn = "none"
    /\ probed' = [fn |-> "local"] @@ get_repo_local_status(probe.is_dir, probe.env)
    /\ UNCHANGED probe

CallRemoteStatus ==
    /\ probe.fn = "remote"
    /\ probed.fn = "none"
    /\ probed' = [fn |-> "remote"]
                   @@ get_repo_remote_status(probe.is_dir, probe.do_fetch, probe.env)
    /\ UNCHANGED probe

(***************************************************************************)
(* The repository table.  ALL_REPOS is a dict: AllRepoNames are its keys   *)
(* in insertion order (PUBLIC_REPOS, then PRIVATE_REPOS), AllRepoUrls the  *)
(* values; SortedRepoNames is the order sorted() gives the keys.           *)
(***************************************************************************)
AllRepoNames ==
    <<"front-Github_profile", "front-Github_io", "back-System", "back-Algo",
      "back-Graphic", "cyber-Cyberwarfare", "ops-Tooling", "ops-Mylibs",
      "ml-MachineLearning", "ml-DataScience", "ml-Agentic",
      "front-Notes_md", "z-lecole42", "z-dev">>

AllRepoUrls ==
    <<"git@github.com:diegonmarcos/diegonmarcos.git",
      "git@github.com:diegonmarcos/diegonmarcos.github.io.git",
      "git@github.com:diegonmarcos/back-System.git",
      "git@github.com:diegonmarcos/back-Algo.git",
      "git@github.com:diegonmarcos/back-Graphic.git",
      "git@github.com:diegonmarcos/cyber-Cyberwarfare.git",
      "git@github.com:diegonmarcos/ops-Tooling.git",
      "git@github.com:diegonmarcos/ops-Mylibs.git",
      "git@github.com:diegonmarcos/ml-MachineLearning.git",
      "git@github.com:diegonmarcos/ml-DataScience.git",
      "git@github.com:diegonmarcos/ml-Agentic.git",
      "git@github.com:diegonmarcos/front-Notes_md.git",
      "git@github.com:diegonmarcos/lecole42.git",
      "git@github.com:diegonmarcos/dev.git">>

SortedRepoNames ==
    <<"back-Algo", "back-Graphic", "back-System", "cyber-Cyberwarfare",
      "front-Github_io", "front-Github_profile", "front-Notes_md", "ml-Agentic",
      "ml-DataScience", "ml-MachineLearning", "ops-Mylibs", "ops-Tooling",
      "z-dev", "z-lecole42">>

Range(seq) == {seq[i] : i \in 1..Len(seq)}

\* list(ALL_REPOS.keys())
ALL_REPOS_keys == SubSeq(AllRepoNames, 1, Min(NRepos, Len(AllRepoNames)))

\* ALL_REPOS.get(repo_name, '')
ALL_REPOS_get(repo_name) ==
    IF repo_name \in Range(ALL_REPOS_keys)
    THEN AllRepoUrls[CHOOSE i \in 1..Len(AllRepoNames) : AllRepoNames[i] = repo_name]
    ELSE ""

\* sorted(names), for names that are keys of ALL_REPOS
Sorted(names) == SelectSeq(SortedRepoNames, LAMBDA n : n \in Range(names))

\* TUI.repos
repos == Sorted(ALL_REPOS_keys)

RepoIdx == 1..Len(repos)

(***************************************************************************)
(* The TUI.  tui holds the fields of the TUI object (list indices are from *)
(* 1 here: repo_cursor is Python's repo_cursor + 1).  world is the state   *)
(* of the repositories on disk while the TUI runs, as its status probes    *)
(* see it; the command-line commands read no status.                       *)
(***************************************************************************)
VARIABLES tui, world, mode, calls, printed, argv, exit_code, todo, cli

workdir_path == "/home/diego/Documents/Git"

total_fields == 5

\* the 14 of max_visible = min(14, h - 30)
MaxVisible == 14

\* action_names of TUI.execute_action
action_names == <<"sync", "fetch", "pull", "push", "status", "untracked", "ignored">>

\* what the probes report of a repository that is clean and up to date, and
\* of one with uncommitted changes and a commit to pull
Conditions == {"clean", "stale"}

Ok == [ret |-> 0, out |-> 0]

ProbeLocal(cond) ==
    get_repo_local_status(TRUE,
        [diff_index |-> [ret |-> IF cond = "stale" THEN 1 ELSE 0, out |-> 0],
         rev_parse |-> Ok, log |-> Ok]).status

ProbeRemote(cond) ==
    get_repo_remote_status(TRUE, TRUE,
        [rev_parse |-> Ok, fetch |-> Ok,
         log |-> [ret |-> 0, out |-> IF cond = "stale" THEN 1 ELSE 0]]).status

\* the fields after TUI.__init__, before its refresh_local_status
TuiFields ==
    [running |-> TRUE,
     repo_selection |-> [i \in RepoIdx |-> TRUE],
     repo_local_status |-> [i \in RepoIdx |-> Status("Not Checked")],
     repo_remote_status |-> [i \in RepoIdx |-> Status("Not Checked")],
     workdir_selected |-> 1,
     strategy_selected |-> 1,
     action_selected |-> 0,
     repo_cursor |-> 1,
     repo_scroll_offset |-> 0,
     current_field |-> 0]

\* work_dir = "." if self.workdir_selected == 0 else self.workdir_path
WorkDir(t) == IF t.workdir_selected = 0 THEN "." ELSE workdir_path

\* Path(work_dir).is_dir(): "." is a directory, the custom path may not be
IsDir(t, custom_is_dir) == t.workdir_selected = 0 \/ custom_is_dir

\* a variant that also selects every repository again
refresh_local_status_reselecting(t, w, custom_is_dir) ==
    IF ~IsDir(t, custom_is_dir) THEN [t EXCEPT !.repo_selection = [i \in RepoIdx |-> TRUE]]
    ELSE [t EXCEPT !.repo_local_status = [i \in RepoIdx |-> ProbeLocal(w[i])],
                   !.repo_selection = [i \in RepoIdx |-> TRUE]]

refresh_local_status(t, w, custom_is_dir) ==
    IF ~IsDir(t, custom_is_dir) THEN t
    ELSE [t EXCEPT !.repo_local_status = [i \in RepoIdx |-> ProbeLocal(w[i])]]

\* a variant that returns after the first repository
refresh_remote_status_first_only(t, w, custom_is_dir) ==
    IF ~IsDir(t, custom_is_dir) THEN t
    ELSE [t EXCEPT !.repo_remote_status[1] = ProbeRemote(w[1])]

refresh_remote_status(t, w, custom_is_dir) ==
    IF ~IsDir(t, custom_is_dir) THEN t
    ELSE [t EXCEPT !.repo_remote_status = [i \in RepoIdx |-> ProbeRemote(w[i])]]

Max(a, b) == IF a > b THEN a ELSE b

key_up(t) ==
    IF t.current_field = 3
    THEN LET c == Max(1, t.repo_cursor - 1)
         IN  [t EXCEPT !.repo_cursor = c,
                       !.repo_scroll_offset = IF c - 1 < @ THEN c - 1 ELSE @]
    ELSE [t EXCEPT !.current_field = (@ - 1) % total_fields]

key_down(t) ==
    IF t.current_field = 3
    THEN LET c == Min(Len(repos), t.repo_cursor + 1)
             max_visible == Min(MaxVisible, ScreenRows - 30)
         IN  [t EXCEPT !.repo_cursor = c,
                       !.repo_scroll_offset =
                           IF c - 1 >= @ + max_visible THEN c - 1 - max_visible + 1 ELSE @]
    ELSE [t EXCEPT !.current_field = (@ + 1) % total_fields]

\* a variant of SPACE that moves the cursor on after toggling
key_space_advancing(t) ==
    CASE t.current_field = 0 -> [t EXCEPT !.workdir_selected = 1 - @]
      [] t.current_field = 1 -> [t EXCEPT !.strategy_selected = 1 - @]
      [] t.current_field = 2 -> [t EXCEPT !.action_selected = (@ + 1) % 7]
      [] t.current_field = 3 ->
            [t EXCEPT !.repo_selection[t.repo_cursor] = ~@,
                      !.repo_cursor = Min(Len(repos), @ + 1)]
      [] OTHER -> t

key_space(t) ==
    CASE t.current_field = 0 -> [t EXCEPT !.workdir_selected = 1 - @]
      [] t.current_field = 1 -> [t EXCEPT !.strategy_selected = 1 - @]
      [] t.current_field = 2 -> [t EXCEPT !.action_selected = (@ + 1) % 7]
      [] t.current_field = 3 -> [t EXCEPT !.repo_selection[t.repo_cursor] = ~@]
      [] OTHER -> t

\* a variant of 'k' that looks at the local status only and keeps the action
key_smart_local_only(t) ==
    [t EXCEPT !.repo_selection =
                  [i \in RepoIdx |-> t.repo_local_status[i] # Status("OK")]]

\* 'k': select the repositories that need updates, and pick sync or push
key_smart(t) ==
    LET local_needs_update(i) == t.repo_local_status[i] \notin {Status("OK")}
        remote_needs_update(i) ==
            t.repo_remote_status[i] \notin {Status("Up to Date"), Status("Not Checked")}
        has_remote_updates == \E i \in RepoIdx : remote_needs_update(i)
    IN  [t EXCEPT !.repo_selection =
                      [i \in RepoIdx |-> local_needs_update(i) \/ remote_needs_update(i)],
                  !.action_selected = IF has_remote_updates THEN 0 ELSE 3]

Keys == {"q", "UP", "DOWN", "TAB", "SPACE", "a", "u", "k", "o", "e",
         "s", "f", "l", "p", "t", "n", "i", "r", "x"}

\* TUI.handle_input for every key but ENTER; is_dir1 and is_dir2 are what the
\* (up to two) refreshes find when they look for the custom working directory
handle_input(t, key, is_dir1, is_dir2) ==
    CASE key = "q" -> [t EXCEPT !.running = FALSE]
      [] key = "UP" -> key_up(t)
      [] key = "DOWN" -> key_down(t)
      [] key = "TAB" -> [t EXCEPT !.current_field = (@ + 1) % total_fields]
      [] key = "SPACE" -> key_space(t)
      [] key = "a" -> [t EXCEPT !.repo_selection = [i \in RepoIdx |-> TRUE]]
      [] key = "u" -> [t EXCEPT !.repo_selection = [i \in RepoIdx |-> FALSE]]
      [] key = "k" -> key_smart(t)
      [] key = "o" -> [t EXCEPT !.strategy_selected = 0]
      [] key = "e" -> [t EXCEPT !.strategy_selected = 1]
      [] key = "s" -> [t EXCEPT !.action_selected = 0]
      [] key = "f" -> refresh_remote_status([t EXCEPT !.action_selected = 1], world, is_dir1)
      [] key = "l" -> [t EXCEPT !.action_selected = 2]
      [] key = "p" -> [t EXCEPT !.action_selected = 3]
      [] key = "t" -> refresh_local_status([t EXCEPT !.action_selected = 4], world, is_dir1)
      [] key = "n" -> [t EXCEPT !.action_selected = 5]
      [] key = "i" -> [t EXCEPT !.action_selected = 6]
      [] key = "r" -> refresh_remote_status(refresh_local_status(t, world, is_dir1), world, is_dir2)
      [] OTHER -> t

\* strategy = 'ours' if self.strategy_selected == 0 else 'theirs'
TuiStrategy(t) == IF t.strategy_selected = 0 THEN "ours" ELSE "theirs"

\* a variant that takes every repository, selected or not
selected_repos_all(t) == repos

\* selected_repos = [self.repos[i] for i in range(len(self.repos)) if self.repo_selection[i]]
selected_repos(t) ==
    LET idx == SelectSeq([i \in RepoIdx |-> i], LAMBDA i : t.repo_selection[i])
    IN  [k \in 1..Len(idx) |-> repos[idx[k]]]

\* one call of process_repo, by its arguments
ProcessRepoCall(repo_name, strategy, action, work_dir) ==
    [repo_dir |-> repo_name, repo_url |-> ALL_REPOS_get(repo_name),
     strategy |-> strategy, action |-> action, work_dir |-> work_dir]

\* what stands for Python's None in args.command
NoCommand == "<None>"

NoArgv ==
    [help |-> FALSE, current |-> FALSE, workdir |-> workdir_path,
     command |-> NoCommand, args |-> <<>>]

NoCli == [strategy |-> "", action |-> "", work_dir |-> ""]

\* the exit status of a process that has not exited
Running == -1

CommandWords ==
    {"sync", "push", "pull", "fetch", "status", "untracked", "ignored",
     "help", "SYNC", "frobnicate"}

\* str.lower() on the command words
Lower(word) == IF word = "SYNC" THEN "sync" ELSE IF word = "Q" THEN "q" ELSE word

ArgWords == Range(ALL_REPOS_keys) \cup {"local", "remote", "no-such-repo"}

SeqsUpTo(S, n) == UNION {[1..k -> S] : k \in 0..n}

\* what argparse hands main: with no command word there are no further words
Argvs ==
    {a \in [help : BOOLEAN, current : BOOLEAN, workdir : {workdir_path, "/srv/git"},
            command : CommandWords \cup {NoCommand}, args : SeqsUpTo(ArgWords, MaxArgs)] :
        a.command = NoCommand => a.args = <<>>}

\* a variant that reads every strategy word as the local one
git_strategy_inverted(strategy) == IF strategy = "local" THEN "theirs" ELSE "ours"

\* git_strategy = 'ours' if strategy == 'local' else 'theirs'
git_strategy(strategy) == IF strategy = "local" THEN "ours" ELSE "theirs"

\* the names main validates: for sync, without a leading strategy word
repos_to_validate(cmd, args) ==
    IF cmd = "sync" /\ args # <<>> /\ Head(args) \in {"local", "remote"}
    THEN Tail(args) ELSE args

\* a variant that looks at the first name only
invalid_repos_first_only(cmd, args) ==
    SelectSeq(IF repos_to_validate(cmd, args) = <<>> THEN <<>>
              ELSE <<Head(repos_to_validate(cmd, args))>>,
              LAMBDA r : r \notin Range(ALL_REPOS_keys))

\* invalid_repos = [r for r in repos_to_validate if r not in ALL_REPOS]
invalid_repos(cmd, args) ==
    SelectSeq(repos_to_validate(cmd, args), LAMBDA r : r \notin Range(ALL_REPOS_keys))

\* a variant that runs nothing when no name is given
repos_to_process_none(names) == names

\* repos_to_process = repos if repos else list(ALL_REPOS.keys())
repos_to_process(names) == IF names # <<>> THEN names ELSE ALL_REPOS_keys

RepoCommands == {"sync", "push", "pull", "status", "untracked", "ignored", "fetch"}

Exit(code, lines) ==
    /\ mode' = "exit"
    /\ exit_code' = code
    /\ printed' = lines

\* main(): parse, help, validate, then the TUI or one of the run_cli_* loops
Main ==
    /\ mode = "start"
    /\ LET work_dir == IF argv.current THEN "." ELSE argv.workdir
           cmd == Lower(argv.command)
           has_strategy == cmd = "sync" /\ argv.args # <<>>
                             /\ Head(argv.args) \in {"local", "remote"}
           strategy == IF has_strategy THEN Head(argv.args) ELSE "remote"
           names == IF has_strategy THEN Tail(argv.args) ELSE argv.args
       IN  IF argv.help
           THEN Exit(0, <<"help">>) /\ UNCHANGED <<tui, world, todo, cli>>
           ELSE IF argv.command = NoCommand
           THEN /\ world' \in [RepoIdx -> Conditions]
                /\ \E custom_is_dir \in BOOLEAN :
                      tui' = refresh_local_status(TuiFields, world', custom_is_dir)
                /\ mode' = "menu"
                /\ UNCHANGED <<exit_code, printed, todo, cli>>
           ELSE IF cmd = "help"
           THEN Exit(0, <<"help">>) /\ UNCHANGED <<tui, world, todo, cli>>
           ELSE IF invalid_repos(cmd, argv.args) # <<>>
           THEN /\ Exit(1, <<"error: Invalid repository name(s)", "help">>)
                /\ UNCHANGED <<tui, world, todo, cli>>
           ELSE IF cmd \in RepoCommands
           THEN /\ mode' = "cli"
                /\ todo' = repos_to_process(names)
                /\ cli' = [strategy |-> IF cmd = "sync" THEN git_strategy(strategy)
                                        ELSE "theirs",
                           action |-> cmd, work_dir |-> work_dir]
                /\ UNCHANGED <<tui, world, exit_code, printed>>
           ELSE /\ Exit(1, <<"error: Invalid command", "help">>)
                /\ UNCHANGED <<tui, world, todo, cli>>
    /\ UNCHANGED <<calls, argv>>

\* one turn of the loop of run_cli_*; main returns when the list is done
CliStep ==
    /\ mode = "cli"
    /\ IF todo = <<>>
       THEN /\ mode' = "exit"
            /\ exit_code' = 0
            /\ UNCHANGED <<todo, calls>>
       ELSE /\ todo' = Tail(todo)
            /\ calls' = IF ALL_REPOS_get(Head(todo)) # ""
                        THEN Append(calls, ProcessRepoCall(Head(todo), cli.strategy,
                                                           cli.action, cli.work_dir))
                        ELSE calls
            /\ UNCHANGED <<mode, exit_code>>
    /\ UNCHANGED <<tui, world, printed, argv, cli>>

\* what a key's refresh can find of the custom working directory; a key that
\* refreshes nothing looks at nothing
DirChecks(key, refreshing) == IF key \in refreshing THEN BOOLEAN ELSE {TRUE}

\* TUI.run: one key other than ENTER; the loop ends when running is false
HandleInput ==
    /\ mode = "menu"
    /\ \E key \in Keys :
         \E is_dir1 \in DirChecks(key, {"f", "t", "r"}), is_dir2 \in DirChecks(key, {"r"}) :
           tui' = handle_input(tui, key, is_dir1, is_dir2)
    /\ mode' = IF tui'.running THEN "menu" ELSE "exit"
    /\ exit_code' = IF tui'.running THEN exit_code ELSE 0
    /\ UNCHANGED <<world, calls, printed, argv, todo, cli>>

\* ENTER: TUI.execute_action up to its input()
ExecuteAction ==
    /\ mode = "menu"
    /\ \E custom_is_dir \in BOOLEAN :
           IF ~IsDir(tui, custom_is_dir)
           THEN /\ printed' = <<"error: Working directory does not exist">>
                /\ calls' = <<>>
           ELSE LET names == selected_repos(tui)
                IN  /\ calls' = [k \in 1..Len(names) |->
                                    ProcessRepoCall(names[k], TuiStrategy(tui),
                                        action_names[tui.action_selected + 1], WorkDir(tui))]
                    /\ printed' = IF names = <<>>
                                  THEN <<"warn: No repositories selected. Nothing to do.",
                                         "All tasks complete!">>
                                  ELSE <<"All tasks complete!">>
    /\ mode' = "prompt"
    /\ UNCHANGED <<tui, world, argv, exit_code, todo, cli>>

\* the answer to "Press 'q' to quit or any other key to return to menu."
Reply ==
    /\ mode = "prompt"
    /\ \E choice \in {"q", "Q", "", "y"}, custom_is_dir \in BOOLEAN :
           IF Lower(choice) = "q"
           THEN /\ tui' = [tui EXCEPT !.running = FALSE]
                /\ mode' = "exit"
                /\ exit_code' = 0
                /\ UNCHANGED <<calls, printed>>
           ELSE /\ tui' = refresh_local_status(tui, world, custom_is_dir)
                /\ mode' = "menu"
                /\ calls' = <<>>
                /\ printed' = <<>>
                /\ UNCHANGED exit_code
    /\ UNCHANGED <<world, argv, todo, cli>>

(***************************************************************************)
(* Git/gcl_old.py: two menus, then clone or pull of every repository.      *)
(* REPOSITORIES is the dict in insertion order.                            *)
(***************************************************************************)
OldRepo(name, path, public) ==
    [name |-> name, https |-> <<"https://github.com/diegonmarcos", path>>,
     ssh |-> <<"git@github.com:diegonmarcos", path>>, public |-> public]

REPOSITORIES ==
    <<OldRepo("profile", "diegonmarcos.git", TRUE),
      OldRepo("back-Mylibs", "back-Mylibs.git", TRUE),
      OldRepo("back-System", "back-System.git", TRUE),
      OldRepo("back-Algo", "back-Algo.git", TRUE),
      OldRepo("back-Graphic", "back-Graphic.git", TRUE),
      OldRepo("website", "diegonmarcos.github.io.git", TRUE),
      OldRepo("cyber-Cyberwarfare", "cyber-Cyberwarfare.git", TRUE),
      OldRepo("ops-Tooling", "ops-Tooling.git", TRUE),
      OldRepo("ml-MachineLearning", "ml-MachineLearning.git", TRUE),
      OldRepo("ml-DataScience", "ml-DataScience.git", TRUE),
      OldRepo("ml-Agentic", "ml-Agentic.git", TRUE),
      OldRepo("front-Notes_md", "front-Notes_md.git", FALSE),
      OldRepo("lecole42", "lecole42.git", FALSE),
      OldRepo("dev", "dev.git", FALSE)>>

VARIABLE old

\* Python's None where an index is expected
NoIndex == -1

NoGit == [is_dir |-> FALSE, cmds |-> <<>>, ok |-> FALSE]

OldStart ==
    [at |-> "mode_menu", current_idx |-> 0, key |-> "", mode_index |-> NoIndex,
     strategy_index |-> NoIndex, i |-> 0, done |-> <<>>, last |-> NoGit,
     success_count |-> 0, fail_count |-> 0, processed |-> 0]

OldKeys == {"UP", "DOWN", "ENTER", "q", "Q", "x"}

\* one turn of the loop of show_menu over three options: the index it goes on
\* with, and what it returns ("" while it loops)
show_menu(current_idx, key) ==
    CASE key = "UP" -> [idx |-> (current_idx - 1) % 3, returns |-> ""]
      [] key = "DOWN" -> [idx |-> (current_idx + 1) % 3, returns |-> ""]
      [] key = "ENTER" -> [idx |-> current_idx, returns |-> "index"]
      [] key \in {"q", "Q"} -> [idx |-> current_idx, returns |-> "None"]
      [] OTHER -> [idx |-> current_idx, returns |-> ""]

\* a variant that clones and then pulls a repository that was absent
clone_or_pull_both(repo_name, url, merge_strategy, is_dir) ==
    IF is_dir
    THEN <<<<"git", "-C", repo_name, "pull", "-s", "recursive", "-X", merge_strategy>>>>
    ELSE <<<<"git", "clone", url, repo_name>>,
           <<"git", "-C", repo_name, "pull", "-s", "recursive", "-X", merge_strategy>>>>

\* the git commands of clone_or_pull
clone_or_pull(repo_name, url, merge_strategy, is_dir) ==
    IF is_dir
    THEN <<<<"git", "-C", repo_name, "pull", "-s", "recursive", "-X", merge_strategy>>>>
    ELSE <<<<"git", "clone", url, repo_name>>>>

\* main of gcl_old.py: one key in the mode menu or in the strategy menu
OldMenuKey ==
    /\ old.at \in {"mode_menu", "strategy_menu"}
    /\ \E key \in OldKeys :
         LET r == show_menu(old.current_idx, key)
             leaves == r.returns = "None" \/ (r.returns = "index" /\ r.idx = 2)
             o == [old EXCEPT !.key = key]
         IN  old' =
               IF r.returns = ""
               THEN [o EXCEPT !.current_idx = r.idx]
               ELSE IF old.at = "mode_menu"
               THEN IF leaves
                    THEN [o EXCEPT !.at = "exited",
                                   !.mode_index = IF r.returns = "None" THEN NoIndex ELSE r.idx]
                    ELSE [o EXCEPT !.at = "strategy_menu", !.mode_index = r.idx,
                                   !.current_idx = 0]
               ELSE IF leaves
                    THEN [o EXCEPT !.at = "mode_menu", !.current_idx = 0,
                                   !.strategy_index =
                                       IF r.returns = "None" THEN NoIndex ELSE r.idx]
                    ELSE [o EXCEPT !.at = "processing", !.strategy_index = r.idx, !.i = 1]

\* process_repositories: one turn of its loop, or its end
OldProcessStep ==
    /\ old.at = "processing"
    /\ LET mode_ == old.mode_index
           url_type == IF mode_ = 0 THEN "https" ELSE "ssh"
           merge_strategy == IF old.strategy_index = 0 THEN "ours" ELSE "theirs"
       IN  IF old.i > Len(REPOSITORIES)
           THEN old' = [old EXCEPT !.at = "continue"]
           ELSE LET repo_info == REPOSITORIES[old.i]
                    url == IF url_type = "https" THEN repo_info.https ELSE repo_info.ssh
                IN  IF mode_ = 0 /\ ~repo_info.public
                    THEN old' = [old EXCEPT !.i = @ + 1]
                    ELSE \E is_dir \in BOOLEAN, ok \in BOOLEAN :
                           old' = [old EXCEPT
                               !.i = @ + 1,
                               !.done = Append(@, [repo_name |-> repo_info.name, url |-> url]),
                               !.last = [is_dir |-> is_dir, ok |-> ok,
                                         cmds |-> clone_or_pull(repo_info.name, url,
                                                                merge_strategy, is_dir)],
                               !.success_count = IF ok THEN @ + 1 ELSE @,
                               !.fail_count = IF ok THEN @ ELSE @ + 1,
                               !.processed = @ + 1]

\* input("Press Enter to continue..."), then the mode menu again
OldContinue ==
    /\ old.at = "continue"
    /\ old' = [old EXCEPT !.at = "mode_menu", !.current_idx = 0, !.i = 0, !.done = <<>>,
                          !.last = NoGit, !.success_count = 0, !.fail_count = 0,
                          !.processed = 0]

(***************************************************************************)
(* Rclone/rclone.py.  A command is the program, its verb, its operands     *)
(* (a base and a leaf joined by the code) and its flags.  The manager's    *)
(* operations are functions of what the environment answers; each gives    *)
(* the commands it ran, the local directories it created and its result.   *)
(***************************************************************************)
MaxFolders == 2

Remotes == {"Gdrive", "Gdrive:", "Gdrive:docs"}

LocalPaths == {"/mnt/gdrive"}

FolderNames == {"a", "b"}

Operand(base, leaf) == [base |-> base, leaf |-> leaf]

Command(prog, verb, operands, flags) ==
    [prog |-> prog, verb |-> verb, operands |-> operands, flags |-> flags]

\* what one call did: the commands it ran, in order, whether each succeeded,
\* the directories it created, and the value it returned
Ran(cmds, results, mkdirs, ret) ==
    [cmds |-> cmds, results |-> results, mkdirs |-> mkdirs, ret |-> ret]

\* remote = f"{remote}:" if ':' not in remote
WithColon(remote) == IF remote = "Gdrive" THEN "Gdrive:" ELSE remote

\* the part of remote_folder before the folder name
RemoteBase(remote) == IF remote = "Gdrive:docs" THEN "Gdrive:docs/" ELSE "Gdrive:"

MountFlags ==
    <<"--vfs-cache-mode", "full", "--tpslimit", "10", "--vfs-cache-max-age", "1h",
      "--vfs-cache-max-size", "50G", "--vfs-read-chunk-size", "32M",
      "--vfs-read-chunk-size-limit", "off", "--dir-cache-time", "10000h",
      "--drive-skip-gdocs", "--log-level", "INFO", "--log-file", "{log_file}">>

\* get_mount_status: one run of `mount`
MountStatusCmd == Command("mount", "", <<>>, <<>>)

\* a variant that launches the mount again when the verification fails
mount_remote_retrying(remote, local_path, mount_mode, is_mounted) ==
    LET mount_cmd == Command("rclone", "mount",
                         <<Operand(WithColon(remote), ""), Operand(local_path, "")>>,
                         IF mount_mode = "daemon" THEN Append(MountFlags, "--daemon") ELSE MountFlags)
        dirs == {Operand("{log_dir}", ""), Operand(local_path, "")}
    IN  IF mount_mode = "verbose" THEN Ran(<<mount_cmd>>, <<TRUE>>, dirs, TRUE)
        ELSE IF is_mounted THEN Ran(<<mount_cmd, MountStatusCmd>>, <<TRUE, TRUE>>, dirs, TRUE)
        ELSE Ran(<<mount_cmd, MountStatusCmd, mount_cmd>>, <<TRUE, FALSE, TRUE>>, dirs, TRUE)

mount_remote(remote, local_path, mount_mode, is_mounted) ==
    LET mount_cmd == Command("rclone", "mount",
                         <<Operand(WithColon(remote), ""), Operand(local_path, "")>>,
                         IF mount_mode = "daemon" THEN Append(MountFlags, "--daemon") ELSE MountFlags)
        dirs == {Operand("{log_dir}", ""), Operand(local_path, "")}
    IN  IF mount_mode = "verbose" THEN Ran(<<mount_cmd>>, <<TRUE>>, dirs, TRUE)
        ELSE Ran(<<mount_cmd, MountStatusCmd>>, <<TRUE, is_mounted>>, dirs, TRUE)

umount_remote(local_path, force, ok) ==
    Ran(<<Command("fusermount", IF force THEN "-uz" ELSE "-u", <<Operand(local_path, "")>>, <<>>)>>,
        <<ok>>, {}, ok)

\* a variant that gives up when the unmount fails
reset_mount_unless_busy(remote, local_path, umount_ok, is_mounted) ==
    LET u == umount_remote(local_path, TRUE, umount_ok)
        m == mount_remote(remote, local_path, "daemon", is_mounted)
    IN  IF umount_ok THEN Ran(u.cmds \o m.cmds, u.results \o m.results, m.mkdirs, m.ret) ELSE u

reset_mount(remote, local_path, umount_ok, is_mounted) ==
    LET u == umount_remote(local_path, TRUE, umount_ok)
        m == mount_remote(remote, local_path, "daemon", is_mounted)
    IN  Ran(u.cmds \o m.cmds, u.results \o m.results, u.mkdirs \cup m.mkdirs, m.ret)

\* what bisync_folder and check_folders find for one folder: whether the local
\* folder exists, the answer to "Create it? [y]", whether the bisync cache
\* exists, and the exit code of rclone
FolderEnv ==
    [exists : BOOLEAN, create : {"", "y", "n"}, cache_exists : BOOLEAN, returncode : {0, 1}]

bisync_folder(remote, local_path, folder, dry_run, resync, e) ==
    LET needs_resync == resync \/ ~e.cache_exists
        cmd == Command("rclone", "bisync",
                   <<Operand(RemoteBase(remote), folder), Operand(local_path, folder)>>,
                   <<"--tpslimit", "10", "--drive-skip-gdocs">>
                     \o (IF needs_resync THEN <<"--resync">> ELSE <<>>)
                     \o (IF dry_run THEN <<"--dry-run">> ELSE <<>>)
                     \o <<"--verbose">>)
    IN  IF ~e.exists /\ e.create \notin {"", "y"}
        THEN Ran(<<>>, <<>>, {}, FALSE)
        ELSE Ran(<<cmd>>, <<e.returncode = 0>>,
                 IF e.exists THEN {} ELSE {Operand(local_path, folder)},
                 e.returncode = 0)

\* the body of the loop of check_folders, for one folder
check_folder(local_path, remote, folder, e) ==
    IF ~e.exists THEN Ran(<<>>, <<>>, {}, TRUE)
    ELSE Ran(<<Command("rclone", "check",
                   <<Operand(local_path, folder), Operand(remote, folder)>>,
                   <<"--combined", "-">>)>>, <<e.returncode = 0>>, {}, TRUE)

\* the results of two calls made one after the other, the second one's value
\* being the one kept
Then(first, rest) ==
    Ran(first.cmds \o rest.cmds, first.results \o rest.results,
        first.mkdirs \cup rest.mkdirs, rest.ret)

RECURSIVE check_folders(_, _, _, _)
\* for folder in folders, envs[i] being what is found for the i-th of them
check_folders(local_path, remote, folders, envs) ==
    IF folders = <<>> THEN Ran(<<>>, <<>>, {}, TRUE)
    ELSE Then(check_folder(local_path, remote, Head(folders), Head(envs)),
              check_folders(local_path, remote, Tail(folders), Tail(envs)))

RECURSIVE BisyncFolders(_, _, _, _, _, _)
\* for folder in folders: self.manager.bisync_folder(remote, local, folder, dry_run, resync)
BisyncFolders(remote, local_path, folders, dry_run, resync, envs) ==
    IF folders = <<>> THEN Ran(<<>>, <<>>, {}, TRUE)
    ELSE Then(bisync_folder(remote, local_path, Head(folders), dry_run, resync, Head(envs)),
              BisyncFolders(remote, local_path, Tail(folders), dry_run, resync, Tail(envs)))

VARIABLE rc

Request(op, remote, local_path, mount_mode, force, folders, dry_run, resync) ==
    [op |-> op, remote |-> remote, local_path |-> local_path, mount_mode |-> mount_mode,
     force |-> force, folders |-> folders, dry_run |-> dry_run, resync |-> resync]

NoRequest == Request("", "", "", "", FALSE, <<>>, FALSE, FALSE)

NoRan == Ran(<<>>, <<>>, {}, FALSE)

\* the options of rclone.py as given on the command line; unknown is an
\* option the parser does not declare; remote is the REMOTE of --mount
RcArgvs ==
    {a \in [help : BOOLEAN, config : BOOLEAN, mount : BOOLEAN, umount : BOOLEAN,
            force : BOOLEAN, unknown : {"", "--check", "--bisync"},
            remote : Remotes, local_path : LocalPaths] :
        ~a.mount => a.remote = "Gdrive"}

RcNoArgs(a) == ~a.help /\ ~a.config /\ ~a.mount /\ ~a.umount /\ ~a.force /\ a.unknown = ""

RcStart(a) ==
    [at |-> "start", argv |-> a, request |-> NoRequest, ran |-> NoRan,
     outcome |-> "", exit_code |-> Running]

RcExit(code, outcome) ==
    rc' = [rc EXCEPT !.at = "exit", !.exit_code = code, !.outcome = outcome]

RcDone(request, ran, at) ==
    rc' = [rc EXCEPT !.at = at, !.request = request, !.ran = ran,
                     !.exit_code = IF at = "exit" THEN 0 ELSE @]

run_rclone_config == Ran(<<Command("rclone", "config", <<>>, <<>>)>>, <<TRUE>>, {}, TRUE)

\* the options the parser of main declares
RcDeclared == {"-h", "--help", "--config", "--mount", "--umount", "--force"}

\* main of rclone.py
RcMain ==
    /\ rc.at = "start"
    /\ LET a == rc.argv
       IN  IF RcNoArgs(a)
           THEN \E installed \in BOOLEAN :
                    IF installed THEN rc' = [rc EXCEPT !.at = "menu"]
                    ELSE RcExit(1, "rclone is not installed")
           ELSE IF a.unknown \notin RcDeclared \cup {""} \/ (a.mount /\ "--mount" \notin RcDeclared)
           THEN RcExit(1, "help")
           ELSE IF a.help
           THEN RcExit(0, "help")
           ELSE \E installed \in BOOLEAN, ok \in BOOLEAN, is_mounted \in BOOLEAN :
                    IF ~installed THEN RcExit(1, "rclone is not installed")
                    ELSE IF a.config
                    THEN RcDone(Request("config", "", "", "", FALSE, <<>>, FALSE, FALSE),
                                run_rclone_config, "exit")
                    ELSE IF a.mount
                    THEN RcDone(Request("mount", a.remote, a.local_path, "daemon",
                                        FALSE, <<>>, FALSE, FALSE),
                                mount_remote(a.remote, a.local_path, "daemon", is_mounted),
                                "exit")
                    ELSE IF a.umount
                    THEN RcDone(Request("umount", "", a.local_path, "", a.force,
                                        <<>>, FALSE, FALSE),
                                umount_remote(a.local_path, a.force, ok), "exit")
                    ELSE RcExit(1, "Invalid arguments! + help")

\* mode_map.get(mode_choice, 'daemon'), an empty answer being '1'
ModeOf(mode_choice) ==
    CASE mode_choice = "2" -> "silent"
      [] mode_choice = "3" -> "verbose"
      [] OTHER -> "daemon"

FolderLists == UNION {[1..n -> FolderNames] : n \in 0..MaxFolders}

\* TUI.run of rclone.py: one choice of the main menu, with its questions
RcMenu ==
    /\ rc.at = "menu"
    /\ \E choice \in {"0", "1", "2", "3", "4", "5", "6", "7", "8", "9", "x"} :
         \E remote \in Remotes, local_path \in LocalPaths :
           CASE choice = "0" -> RcExit(0, "Goodbye!")
             [] choice = "1" ->
                  RcDone(Request("config", "", "", "", FALSE, <<>>, FALSE, FALSE),
                         run_rclone_config, "pause")
             [] choice = "2" ->
                  RcDone(Request("status", "", local_path, "", FALSE, <<>>, FALSE, FALSE),
                         Ran(<<MountStatusCmd>>, <<TRUE>>, {}, TRUE), "pause")
             [] choice = "3" ->
                  \E mode_choice \in {"", "2", "3", "7"}, is_mounted \in BOOLEAN, given_up \in BOOLEAN :
                    IF given_up THEN RcDone(NoRequest, NoRan, "pause")
                    ELSE RcDone(Request("mount", WithColon(remote), local_path,
                                        ModeOf(mode_choice), FALSE, <<>>, FALSE, FALSE),
                                mount_remote(WithColon(remote), local_path,
                                             ModeOf(mode_choice), is_mounted),
                                "pause")
             [] choice = "4" ->
                  \E force \in {"", "y", "n"}, ok \in BOOLEAN, given_up \in BOOLEAN :
                    IF given_up THEN RcDone(NoRequest, NoRan, "pause")
                    ELSE RcDone(Request("umount", "", local_path, "", force = "y",
                                        <<>>, FALSE, FALSE),
                                umount_remote(local_path, force = "y", ok), "pause")
             [] choice = "5" ->
                  \E ok \in BOOLEAN, is_mounted \in BOOLEAN, given_up \in BOOLEAN :
                    IF given_up THEN RcDone(NoRequest, NoRan, "pause")
                    ELSE RcDone(Request("reset", WithColon(remote), local_path, "daemon",
                                        TRUE, <<>>, FALSE, FALSE),
                                reset_mount(WithColon(remote), local_path, ok, is_mounted),
                                "pause")
             [] choice = "6" ->
                  \E folders \in FolderLists :
                    \E envs \in [1..Len(folders) -> FolderEnv] :
                      RcDone(Request("check", remote, local_path, "", FALSE, folders,
                                     FALSE, FALSE),
                             check_folders(local_path, remote, folders, envs),
                             "pause")
             [] choice = "7" ->
                  \E folders \in FolderLists, dry \in {"", "y", "n"}, re \in {"", "y"} :
                    \E envs \in [1..Len(folders) -> FolderEnv] :
                      LET dry_run == dry \in {"", "y"}
                          resync == ~dry_run /\ re = "y"
                      IN  IF folders = <<>> THEN RcDone(NoRequest, NoRan, "pause")
                          ELSE RcDone(Request("bisync", remote, local_path, "", FALSE,
                                              folders, dry_run, resync),
                                      BisyncFolders(remote, local_path, folders, dry_run,
                                                    resync, envs),
                                      "pause")
             [] OTHER -> RcDone(NoRequest, NoRan, "pause")

\* TUI.pause: Enter, and the menu again
RcPause ==
    /\ rc.at = "pause"
    /\ rc' = [rc EXCEPT !.at = "menu", !.request = NoRequest, !.ran = NoRan]

vars == <<probe, probed, call, pc, trace, logs,
          tui, world, mode, calls, printed, argv, exit_code, todo, cli, old, rc>>

progvars == <<tui, world, mode, calls, printed, argv, exit_code, todo, cli>>

NoCall == [ver |-> GclNew, action |-> "status", strategy |-> "theirs", is_dir |-> FALSE]

RepoIdle == call = NoCall /\ pc = "idle" /\ trace = <<>> /\ logs = <<>>

StatusIdle == probe = NoProbe /\ probed = NoProbe

ProgramIdle ==
    /\ tui = TuiFields
    /\ world = [i \in RepoIdx |-> "clean"]
    /\ mode = "off"
    /\ calls = <<>>
    /\ printed = <<>>
    /\ argv = NoArgv
    /\ exit_code = Running
    /\ todo = <<>>
    /\ cli = NoCli

ToolsIdle == old = OldStart /\ rc = RcStart(CHOOSE a \in RcArgvs : RcNoArgs(a))

InitStatus ==
    probe \in ProbeInputs /\ probed = NoProbe /\ RepoIdle /\ ProgramIdle /\ ToolsIdle

NextStatus ==
    \/ CallLocalStatus /\ UNCHANGED <<call, pc, trace, logs, old, rc>> /\ UNCHANGED progvars
    \/ CallRemoteStatus /\ UNCHANGED <<call, pc, trace, logs, old, rc>> /\ UNCHANGED progvars

InitRepo ==
    /\ call \in CallInputs /\ pc = "idle" /\ trace = <<>> /\ logs = <<>>
    /\ StatusIdle /\ ProgramIdle /\ ToolsIdle

NextRepo ==
    \/ PrEnter /\ UNCHANGED <<probe, probed, old, rc>> /\ UNCHANGED progvars
    \/ PrGit /\ UNCHANGED <<probe, probed, old, rc>> /\ UNCHANGED progvars

\* the program as started from the command line
Init ==
    /\ argv \in Argvs
    /\ world = [i \in RepoIdx |-> "clean"]
    /\ mode = "start"
    /\ tui = TuiFields
    /\ calls = <<>>
    /\ printed = <<>>
    /\ exit_code = Running
    /\ todo = <<>>
    /\ cli = NoCli
    /\ RepoIdle /\ StatusIdle /\ ToolsIdle

Next ==
    \/ Main /\ UNCHANGED <<probe, probed, call, pc, trace, logs, old, rc>>
    \/ CliStep /\ UNCHANGED <<probe, probed, call, pc, trace, logs, old, rc>>
    \/ HandleInput /\ UNCHANGED <<probe, probed, call, pc, trace, logs, old, rc>>
    \/ ExecuteAction /\ UNCHANGED <<probe, probed, call, pc, trace, logs, old, rc>>
    \/ Reply /\ UNCHANGED <<probe, probed, call, pc, trace, logs, old, rc>>

\* gcl_old.py as started from the command line
InitOld == ToolsIdle /\ RepoIdle /\ StatusIdle /\ ProgramIdle

NextOld ==
    \/ OldMenuKey /\ UNCHANGED <<probe, probed, call, pc, trace, logs, rc>> /\ UNCHANGED progvars
    \/ OldProcessStep /\ UNCHANGED <<probe, probed, call, pc, trace, logs, rc>> /\ UNCHANGED progvars
    \/ OldContinue /\ UNCHANGED <<probe, probed, call, pc, trace, logs, rc>> /\ UNCHANGED progvars

SpecOld == InitOld /\ [][NextOld]_vars

\* rclone.py as started from the command line
InitRc ==
    /\ \E a \in RcArgvs : rc = RcStart(a)
    /\ old = OldStart /\ RepoIdle /\ StatusIdle /\ ProgramIdle

NextRc ==
    \/ RcMain /\ UNCHANGED <<probe, probed, call, pc, trace, logs, old>> /\ UNCHANGED progvars
    \/ RcMenu /\ UNCHANGED <<probe, probed, call, pc, trace, logs, old>> /\ UNCHANGED progvars
    \/ RcPause /\ UNCHANGED <<probe, probed, call, pc, trace, logs, old>> /\ UNCHANGED progvars

SpecRc == InitRc /\ [][NextRc]_vars

\* process_repo called for a repository whose directory exists
InitExisting == InitRepo /\ call.is_dir

SpecExisting == InitExisting /\ [][NextRepo]_vars

SpecRepo == InitRepo /\ [][NextRepo]_vars

SpecStatus == InitStatus /\ [][NextStatus]_vars

Spec == Init /\ [][Next]_vars


(***************************************************************************)
(* Properties of the status probes (SpecStatus).                           *)
(***************************************************************************)
ArgsOf(tr) == [i \in 1..Len(tr) |-> tr[i].args]

DiffIndexArgs == <<"diff-index", "--quiet", "HEAD", "--">>
RevParseArgs == <<"rev-parse", "@{u}">>
LogUnpushedArgs == <<"log", "@{u}..", "--oneline">>
LogUnpulledArgs == <<"log", "HEAD..@{u}", "--oneline">>
FetchQuietArgs == <<"fetch", "--quiet">>

\* C1: get_repo_local_status returns, in strict priority, 'Not Cloned' for a
\* missing directory, 'Uncommitted' when diff-index exits non-zero, 'No Remote'
\* when rev-parse exits non-zero, 'N Unpushed' when git log printed N > 0 lines,
\* else 'OK'; and it runs exactly the git commands up to the deciding check,
\* none after it.
C1_LocalStatusPriority ==
    probed.fn = "local" =>
        LET e == probe.env
            N == e.log.out
        IN  IF ~probe.is_dir
            THEN probed.status = Status("Not Cloned") /\ probed.trace = <<>>
            ELSE IF e.diff_index.ret # 0
            THEN /\ probed.status = Status("Uncommitted")
                 /\ ArgsOf(probed.trace) = <<DiffIndexArgs>>
            ELSE IF e.rev_parse.ret # 0
            THEN /\ probed.status = Status("No Remote")
                 /\ ArgsOf(probed.trace) = <<DiffIndexArgs, RevParseArgs>>
            ELSE /\ ArgsOf(probed.trace) = <<DiffIndexArgs, RevParseArgs, LogUnpushedArgs>>
                 /\ probed.status = IF N > 0 THEN StatusN(N, "Unpushed") ELSE Status("OK")

\* C1 witness: a clean, tracking repository with two unpushed commits was probed
C1_Witness ==
    /\ probed.fn = "local"
    /\ probed.status = StatusN(2, "Unpushed")
    /\ Len(probed.trace) = 3

FetchCalls(tr) == {i \in 1..Len(tr) : tr[i].args = FetchQuietArgs}

\* C2: get_repo_remote_status returns, in strict priority, 'Not Cloned' for a
\* missing directory, 'No Remote' when rev-parse exits non-zero, 'Fetch Failed'
\* when the git fetch it ran exits non-zero, 'N To Pull' when git log printed
\* N > 0 lines, else 'Up to Date'; git fetch is issued only for an existing
\* directory whose rev-parse succeeded, and (when fetching is asked for) always
\* for such a directory.
C2_RemoteStatusPriority ==
    probed.fn = "remote" =>
        LET e == probe.env
            N == e.log.out
            tr == probed.trace
            fetchFailed == \E i \in FetchCalls(tr) : tr[i].ret # 0
        IN  /\ FetchCalls(tr) # {} => probe.is_dir /\ e.rev_parse.ret = 0
            /\ (probe.do_fetch /\ probe.is_dir /\ e.rev_parse.ret = 0)
                  => \E i \in FetchCalls(tr) : tr[i].ret = e.fetch.ret
            /\ \A i \in FetchCalls(tr) : i = 2 /\ tr[1].args = RevParseArgs
            /\ IF ~probe.is_dir
               THEN probed.status = Status("Not Cloned") /\ tr = <<>>
               ELSE IF e.rev_parse.ret # 0
               THEN probed.status = Status("No Remote") /\ ArgsOf(tr) = <<RevParseArgs>>
               ELSE IF fetchFailed
               THEN /\ probed.status = Status("Fetch Failed")
                    /\ ArgsOf(tr) = <<RevParseArgs, FetchQuietArgs>>
               ELSE /\ tr[Len(tr)].args = LogUnpulledArgs
                    /\ probed.status =
                         IF N > 0 THEN StatusN(N, "To Pull") ELSE Status("Up to Date")

\* C2 witness: the fetch of an existing, tracking repository failed
C2_Witness ==
    /\ probed.fn = "remote"
    /\ probed.status = Status("Fetch Failed")
    /\ probe.is_dir /\ probe.env.rev_parse.ret = 0 /\ probe.env.fetch.ret = 128


(***************************************************************************)
(* Properties of process_repo (SpecRepo).                                  *)
(***************************************************************************)
Returned == pc = "return"

At(site) == {i \in 1..Len(trace) : trace[i].site = site}

Issued(site) == At(site) # {}

\* the place of a site in "Commit, Fetch, Pull, Commit, Push"
SyncRank(site) ==
    CASE site = "diff" -> 1
      [] site = "add1" -> 2
      [] site = "commit1" -> 3
      [] site = "fetch" -> 4
      [] site = "pull" -> 5
      [] site = "add2" -> 6
      [] site = "cached" -> 7
      [] site = "commit2" -> 8
      [] site = "push" -> 9
      [] OTHER -> 0

NewSyncOfExisting == call.ver = GclNew /\ call.action = "sync" /\ call.is_dir

\* C3: a sync of an existing repository by Git/gcl/gcl.py issues its git steps
\* in the order Commit, Fetch, Pull, Commit, Push, each at most once: the
\* auto-commit (add, commit 'Auto-commit before sync') is issued only after
\* diff-index reported changes and before the fetch, the fetch before the pull,
\* the pull before the second add and commit (the commit 'fixes' only after
\* diff-index --cached reported staged changes), and the push is the last git
\* command; a run in which no step failed ends with the push.
C3_SyncOrder ==
    (NewSyncOfExisting /\ pc # "idle") =>
        /\ \A i, j \in 1..Len(trace) :
             i < j => /\ SyncRank(trace[i].site) > 0
                      /\ SyncRank(trace[i].site) < SyncRank(trace[j].site)
        /\ \A i \in 1..Len(trace) :
             LET c == trace[i]
                 before(site, ok) ==
                     \E j \in 1..(i - 1) :
                        /\ trace[j].site = site
                        /\ IF ok THEN trace[j].ret = 0 ELSE trace[j].ret # 0
             IN  /\ c.site \in {"add1", "commit1"} => before("diff", FALSE)
                 /\ c.site = "add1" => c.args = <<"add", ".">>
                 /\ c.site = "commit1" =>
                       /\ c.args = <<"commit", "-m", "Auto-commit before sync">>
                       /\ trace[i - 1].site = "add1"
                 /\ c.site = "fetch" =>
                       /\ c.args = <<"fetch">>
                       /\ before("diff", TRUE) \/ before("commit1", TRUE)
                 /\ c.site = "pull" =>
                       /\ c.args[1] = "pull"
                       /\ before("fetch", TRUE)
                 /\ c.site \in {"add2", "cached", "commit2", "push"} =>
                       before("pull", TRUE)
                 /\ c.site = "add2" => c.args = <<"add", ".">>
                 /\ c.site = "commit2" =>
                       /\ c.args = <<"commit", "-m", "fixes">>
                       /\ before("add2", TRUE) \/ before("add2", FALSE)
                       /\ trace[i - 1].site = "cached" /\ trace[i - 1].ret # 0
                 /\ c.site = "push" =>
                       /\ c.args = <<"push">>
                       /\ i = Len(trace)
                       /\ Returned
        /\ (Returned /\ \A i \in 1..Len(trace) :
                           trace[i].site \in {"commit1", "fetch", "pull"}
                              => trace[i].ret = 0)
              => Issued("push") /\ Issued("fetch") /\ Issued("pull")

\* C3 witness: a sync that ran all five steps, both commits included
C3_Witness ==
    /\ NewSyncOfExisting
    /\ Returned
    /\ [i \in 1..Len(trace) |-> trace[i].site]
         = <<"diff", "add1", "commit1", "fetch", "pull", "add2", "cached", "commit2", "push">>

SyncOfExisting == call.action = "sync" /\ call.is_dir

\* the step at place i of the trace failed and ended the call with this line
FailedLast(i, line) ==
    /\ i = Len(trace)
    /\ Returned
    /\ logs[Len(logs)] = line

\* C4: in a sync (either file) git push is issued only after a pull that exited
\* 0; a failed auto-commit, a failed fetch (Git/gcl/gcl.py) or a failed pull is
\* the last git command of the call, and process_repo returns with the failure
\* line as the last line of its log.
C4_SyncStopsOnFailure ==
    (SyncOfExisting /\ pc # "idle") =>
        /\ \A i \in At("push") : \E j \in 1..(i - 1) :
              trace[j].site = "pull" /\ trace[j].ret = 0
        /\ \A i \in At("commit1") :
              trace[i].ret # 0 => FailedLast(i, L("  x Commit failed."))
        /\ \A i \in At("fetch") :
              trace[i].ret # 0 => FailedLast(i, L("  x Fetch failed."))
        /\ \A i \in At("pull") :
              trace[i].ret # 0 =>
                 FailedLast(i, IF call.ver = GclNew THEN L("  x Pull failed.")
                               ELSE L("  x Pull failed: {output[:200]}"))
        /\ call.ver = GclNew => \A i \in At("pull") : \E j \in 1..(i - 1) :
              trace[j].site = "fetch" /\ trace[j].ret = 0

\* C4 witness: the pull of a sync failed after printing two lines
C4_Witness ==
    /\ NewSyncOfExisting
    /\ Returned
    /\ Issued("commit1")
    /\ trace[Len(trace)].site = "pull"
    /\ trace[Len(trace)].ret # 0
    /\ trace[Len(trace)].out = 2

NewCallOfMissing == call.ver = GclNew /\ ~call.is_dir

\* C5: for a missing repository directory process_repo of Git/gcl/gcl.py issues
\* no git command and returns the 'Repository not cloned yet' warning when the
\* action is status, untracked or ignored; for sync, fetch, pull and push it
\* issues exactly one git clone (in the working directory) and returns, whatever
\* the clone's exit code, without any command of the requested action.
C5_MissingDirectory ==
    (NewCallOfMissing /\ pc # "idle") =>
        IF call.action \in {"status", "untracked", "ignored"}
        THEN /\ trace = <<>>
             /\ Returned
             /\ logs = <<L("==> Processing '{repo_dir}'"),
                         L("  ! Repository not cloned yet")>>
        ELSE /\ Len(trace) <= 1
             /\ \A i \in 1..Len(trace) :
                   /\ trace[i].args = <<"clone", "{repo_url}", "{repo_dir}">>
                   /\ trace[i].dir = "work_dir"
             /\ Returned <=> Len(trace) = 1
             /\ Returned =>
                   logs[Len(logs)] = IF trace[1].ret = 0 THEN L("  v Clone complete.")
                                     ELSE L("  x Clone failed.")

\* C5 witness: a sync of a missing repository returned after its clone failed
C5_Witness ==
    /\ NewCallOfMissing
    /\ call.action = "sync"
    /\ Returned
    /\ Len(trace) = 1 /\ trace[1].ret = 128

\* C5 witness of the read-only case: status of a missing repository returned
C5_WitnessReadOnly ==
    NewCallOfMissing /\ call.action = "status" /\ Returned /\ trace = <<>>


(***************************************************************************)
(* Properties of the program: the command line and the TUI (Spec).         *)
(***************************************************************************)
NamesOf(cs) == [k \in 1..Len(cs) |-> cs[k].repo_dir]

FromCli == argv.command # NoCommand

Cmd == Lower(argv.command)

HasStrategyWord == Cmd = "sync" /\ argv.args # <<>> /\ Head(argv.args) \in {"local", "remote"}

GivenNames == IF HasStrategyWord THEN Tail(argv.args) ELSE argv.args

\* LOCAL is selected: in the TUI by strategy_selected, on the command line by `sync local`
LocalSelected ==
    IF FromCli
    THEN Cmd = "sync" /\ argv.args # <<>> /\ Head(argv.args) = "local"
    ELSE tui.strategy_selected = 0

\* the option process_repo hands git pull for a call
PullOptionOf(c) == Args(GclNew, c.action, "pull", c.strategy)[3]

\* C6: the merge strategy handed to git pull --strategy-option= is 'ours'
\* exactly when LOCAL is selected (TUI strategy_selected = 0, or `sync local`)
\* and 'theirs' exactly when REMOTE is selected (strategy_selected = 1,
\* `sync remote`, or sync without a strategy word); the commands pull and push
\* always use 'theirs'.
C6_MergeStrategy ==
    \A k \in 1..Len(calls) :
        /\ LocalSelected <=> calls[k].strategy = "ours"
        /\ ~LocalSelected <=> calls[k].strategy = "theirs"
        /\ LocalSelected <=> PullOptionOf(calls[k]) = "--strategy-option=ours"
        /\ ~LocalSelected <=> PullOptionOf(calls[k]) = "--strategy-option=theirs"
        /\ FromCli /\ Cmd \in {"pull", "push"} => calls[k].strategy = "theirs"

\* C6 witness: `sync local` called process_repo with 'ours'
C6_Witness ==
    /\ FromCli /\ Cmd = "sync" /\ LocalSelected
    /\ calls # <<>>
    /\ calls[1].strategy = "ours"

RankOf(name) == CHOOSE r \in 1..Len(SortedRepoNames) : SortedRepoNames[r] = name

Selected == {i \in RepoIdx : tui.repo_selection[i]}

\* ENTER was pressed, the working directory existed, the prompt is showing
AtPromptAfterRun == mode = "prompt" /\ printed[Len(printed)] = "All tasks complete!"

NoneSelectedWarning == "warn: No repositories selected. Nothing to do."

\* C7: ENTER with an existing working directory calls process_repo exactly once
\* for each selected repository, in sorted name order, with the selected action
\* and strategy, and for no unselected repository; with nothing selected it
\* makes no call and prints the 'No repositories selected' warning.
C7_EnterRunsSelected ==
    AtPromptAfterRun =>
        /\ Len(calls) = Cardinality(Selected)
        /\ \A i \in Selected :
               Cardinality({k \in 1..Len(calls) : calls[k].repo_dir = repos[i]}) = 1
        /\ \A i \in RepoIdx \ Selected :
               \A k \in 1..Len(calls) : calls[k].repo_dir # repos[i]
        /\ \A k \in 1..Len(calls), l \in 1..Len(calls) :
               k < l => RankOf(calls[k].repo_dir) < RankOf(calls[l].repo_dir)
        /\ \A k \in 1..Len(calls) :
               /\ calls[k].action = action_names[tui.action_selected + 1]
               /\ calls[k].strategy = (IF tui.strategy_selected = 0 THEN "ours" ELSE "theirs")
        /\ Selected = {} => calls = <<>> /\ printed[1] = NoneSelectedWarning
        /\ Selected # {} => printed[1] # NoneSelectedWarning

\* C7 witness: ENTER on the repositories field with one repository selected and
\* another not
C7_Witness ==
    /\ AtPromptAfterRun
    /\ tui.current_field = 3
    /\ Len(calls) = 1
    /\ Selected # {} /\ Selected # RepoIdx

OtherFields(t) == [t EXCEPT !.repo_selection = [i \in RepoIdx |-> FALSE]]

\* C8: SPACE on the repositories field flips the flag under the cursor and
\* leaves every other flag, the cursor, the action, the strategy and the
\* working-directory choice as they were, and a second SPACE restores the
\* selection; 'a' sets every flag, 'u' clears every flag, and neither changes
\* anything else.
C8_SelectionKeys ==
    mode = "menu" =>
        LET once == handle_input(tui, "SPACE", TRUE, TRUE)
            twice == handle_input(once, "SPACE", TRUE, TRUE)
            all == handle_input(tui, "a", TRUE, TRUE)
            none == handle_input(tui, "u", TRUE, TRUE)
        IN  /\ tui.current_field = 3 =>
                /\ once.repo_selection[tui.repo_cursor] = ~tui.repo_selection[tui.repo_cursor]
                /\ \A j \in RepoIdx \ {tui.repo_cursor} :
                       once.repo_selection[j] = tui.repo_selection[j]
                /\ once.repo_cursor = tui.repo_cursor
                /\ once.action_selected = tui.action_selected
                /\ once.strategy_selected = tui.strategy_selected
                /\ once.workdir_selected = tui.workdir_selected
                /\ twice.repo_selection = tui.repo_selection
            /\ \A i \in RepoIdx : all.repo_selection[i] /\ ~none.repo_selection[i]
            /\ OtherFields(all) = OtherFields(tui)
            /\ OtherFields(none) = OtherFields(tui)

\* C8 witness: on the repositories field, before any status was read, the
\* repository under the cursor has been switched off and another is still on
C8_Witness ==
    /\ mode = "menu"
    /\ tui.current_field = 3
    /\ ~tui.repo_selection[tui.repo_cursor]
    /\ \E j \in RepoIdx : tui.repo_selection[j]
    /\ \A j \in RepoIdx : tui.repo_local_status[j] = Status("Not Checked")
    /\ \A j \in RepoIdx : tui.repo_remote_status[j] = Status("Not Checked")

\* a repository command was given without the help flag, and every name given
\* is a key of ALL_REPOS
ValidCommand ==
    /\ FromCli /\ ~argv.help
    /\ Cmd \in {"sync", "push", "pull", "fetch", "status", "untracked", "ignored"}
    /\ \A k \in 1..Len(GivenNames) : GivenNames[k] \in Range(ALL_REPOS_keys)

\* C9: for each of sync, push, pull, fetch, status, untracked and ignored:
\* with repository names given, process_repo is called for exactly those names
\* in the given order; with none given (`sync local` and `sync remote`
\* included), once for every repository of ALL_REPOS.
C9_CliRepositories ==
    ValidCommand /\ mode \in {"cli", "exit"} =>
        /\ NamesOf(calls) \o todo =
               (IF GivenNames # <<>> THEN GivenNames
                ELSE SubSeq(AllRepoNames, 1, Min(NRepos, Len(AllRepoNames))))
        /\ mode = "exit" => todo = <<>>
        /\ \A k \in 1..Len(calls) : calls[k].action = Cmd

\* C9 witness: `sync remote`, with only the strategy word, has run every
\* repository of ALL_REPOS
C9_Witness ==
    /\ ValidCommand /\ mode = "exit"
    /\ Cmd = "sync" /\ argv.args = <<"remote">>
    /\ Len(calls) = NRepos

KnownCommands == {"sync", "push", "pull", "fetch", "status", "untracked", "ignored", "help"}

\* the command line names a repository that is not a key of ALL_REPOS (for
\* sync, after a leading strategy word), or an unknown command
InvalidInput ==
    /\ FromCli
    /\ \/ \E k \in 1..Len(GivenNames) : GivenNames[k] \notin Range(ALL_REPOS_keys)
       \/ Cmd \notin KnownCommands

HelpRequested == argv.help \/ Cmd = "help"

\* C10 as stated: on invalid input the program exits with status 1 and
\* process_repo is never called.
C10_InvalidInputExitsOne ==
    InvalidInput => calls = <<>> /\ (mode = "exit" => exit_code = 1)

\* C10: on invalid input process_repo is never called, not even for the valid
\* names given alongside an invalid one, and the program exits with status 1,
\* unless help was requested (the -h/--help flag or the command help): then it
\* prints the help and exits with status 0.
C10_InvalidInputRejected ==
    InvalidInput =>
        /\ calls = <<>>
        /\ mode # "cli"
        /\ mode = "exit" => exit_code = (IF HelpRequested THEN 0 ELSE 1)

\* C10 witness: push of a valid name followed by an invalid one has exited
C10_Witness ==
    /\ InvalidInput /\ ~HelpRequested
    /\ mode = "exit" /\ exit_code = 1
    /\ Cmd = "push"
    /\ Len(argv.args) = 2
    /\ argv.args[1] \in Range(ALL_REPOS_keys)
    /\ argv.args[2] = "no-such-repo"

\* C11 as stated: every git operation of an invocation runs against '.' with
\* -c and against the -w path otherwise, for a command and for the TUI alike.
C11_WorkDirOptions ==
    \A k \in 1..Len(calls) :
        calls[k].work_dir = (IF argv.current THEN "." ELSE argv.workdir)

NoDirError == "error: Working directory does not exist"

\* ENTER was pressed, the working directory did not exist, the prompt is showing
AtPromptAfterNoDir == mode = "prompt" /\ printed[1] = NoDirError

\* C12: when the selected working directory does not exist, execute_action
\* reports the error and calls process_repo for no repository; the reply then
\* either stops the TUI ('q') or brings back the menu with the selection, the
\* action and the strategy as they were.
C12_MissingWorkDir ==
    [][ /\ AtPromptAfterNoDir => calls = <<>> /\ printed = <<NoDirError>>
        /\ AtPromptAfterNoDir =>
              /\ calls' = <<>>
              /\ \/ mode' = "exit" /\ ~tui'.running
                 \/ /\ mode' = "menu" /\ tui'.running
                    /\ tui'.repo_selection = tui.repo_selection
                    /\ tui'.action_selected = tui.action_selected
                    /\ tui'.strategy_selected = tui.strategy_selected ]_vars

\* C12 witness: the error prompt is showing while one repository is switched off
C12_Witness ==
    /\ AtPromptAfterNoDir
    /\ calls = <<>>
    /\ \E i \in RepoIdx : ~tui.repo_selection[i]

AllNotChecked(statuses) == \A i \in RepoIdx : statuses[i] = Status("Not Checked")

LocalNeedsUpdate(i) == tui.repo_local_status[i].text # "OK"

RemoteNeedsUpdate(i) == tui.repo_remote_status[i].text \notin {"Up to Date", "Not Checked"}

PublicRepos == SelectSeq(REPOSITORIES, LAMBDA r : r.public)

HttpsMode == old.mode_index = 0

\* the clone_or_pull calls of a whole run in the chosen mode
ExpectedDone ==
    IF HttpsMode
    THEN [k \in 1..Len(PublicRepos) |->
             [repo_name |-> PublicRepos[k].name, url |-> PublicRepos[k].https]]
    ELSE [k \in 1..Len(REPOSITORIES) |->
             [repo_name |-> REPOSITORIES[k].name, url |-> REPOSITORIES[k].ssh]]

\* C13: HTTPS mode processes exactly the 11 public repositories, each with its
\* https URL, and no private one; SSH mode processes all 14, each with its ssh
\* URL.  Each processed repository is cloned if its directory is absent and
\* pulled, with -X ours for LOCAL and -X theirs for REMOTE, if it is present,
\* never both.
C13_ModesAndCloneOrPull ==
    /\ Len(PublicRepos) = 11 /\ Len(REPOSITORIES) = 14
    /\ old.at \in {"processing", "continue"} =>
          /\ Len(old.done) <= Len(ExpectedDone)
          /\ old.done = SubSeq(ExpectedDone, 1, Len(old.done))
          /\ old.processed = Len(old.done)
          /\ \A k \in 1..Len(old.done) :
                 HttpsMode => \E r \in Range(PublicRepos) :
                                  r.name = old.done[k].repo_name /\ r.https = old.done[k].url
    /\ old.at = "continue" =>
          /\ old.done = ExpectedDone
          /\ Len(old.done) = (IF HttpsMode THEN 11 ELSE 14)
    /\ old.done # <<>> =>
          LET c == old.done[Len(old.done)]
              X == IF old.strategy_index = 0 THEN "ours" ELSE "theirs"
          IN  /\ Len(old.last.cmds) = 1
              /\ old.last.is_dir =>
                     old.last.cmds[1] =
                         <<"git", "-C", c.repo_name, "pull", "-s", "recursive", "-X", X>>
              /\ ~old.last.is_dir =>
                     old.last.cmds[1] = <<"git", "clone", c.url, c.repo_name>>

\* C13 witness: an HTTPS run with LOCAL has finished its 11 repositories, the
\* last of them by a pull
C13_Witness ==
    /\ old.at = "continue"
    /\ HttpsMode /\ old.strategy_index = 0
    /\ Len(old.done) = 11
    /\ old.last.is_dir

\* C19 as stated: in the mode menu and in the strategy menu alike, q or Q ends
\* the main loop.
C19_QuitInEveryMenu ==
    [][ old.at \in {"mode_menu", "strategy_menu"} /\ old' # old /\ old'.key \in {"q", "Q"}
            => old'.at = "exited" ]_vars

\* ---- the rclone manager ----

\* how many commands of the last request are prog with one of the verbs
RanCount(prog, verbs) ==
    Cardinality({i \in DOMAIN rc.ran.cmds :
                    rc.ran.cmds[i].prog = prog /\ rc.ran.cmds[i].verb \in verbs})

\* how many `rclone <verb>` commands of the last request are about the folder
FolderRuns(verb, folder) ==
    Cardinality({i \in DOMAIN rc.ran.cmds :
                    /\ rc.ran.cmds[i].prog = "rclone"
                    /\ rc.ran.cmds[i].verb = verb
                    /\ Operand(rc.request.local_path, folder) \in Range(rc.ran.cmds[i].operands)})

\* how many times the request lists the folder
Listed(folder) ==
    Cardinality({i \in DOMAIN rc.request.folders : rc.request.folders[i] = folder})

\* C14: the rclone manager never retries: one request runs fusermount at most
\* once and launches `rclone mount` at most once, and runs `rclone bisync`
\* and `rclone check` at most once for each folder the request lists, whatever
\* the commands' exit codes and the verification of the mount are.
C14_NoRetry ==
    /\ RanCount("fusermount", {"-u", "-uz"}) <= 1
    /\ RanCount("rclone", {"mount"}) <= 1
    /\ \A folder \in FolderNames :
          /\ FolderRuns("bisync", folder) <= Listed(folder)
          /\ FolderRuns("check", folder) <= Listed(folder)
    /\ rc.request.op = "umount" => RanCount("rclone", {"mount", "bisync", "check"}) = 0
    /\ rc.request.op = "mount" => RanCount("fusermount", {"-u", "-uz"}) = 0

\* a bisync of two folders in which a `rclone bisync` exited non-zero, and a
\* mount whose verification failed, are both covered by these states; this one
\* is the bisync
C14_Witness ==
    /\ rc.request.op = "bisync"
    /\ Len(rc.request.folders) = MaxFolders
    /\ Len(rc.ran.cmds) = MaxFolders
    /\ rc.ran.results[1] = FALSE

\* C15: in dry-run mode bisync_folder changes nothing: every command of a
\* dry-run bisync carries --dry-run and no local folder is created, whatever
\* the state of the local folder and the answer to "Create it?".
C15_DryRunChangesNothing ==
    (rc.request.op = "bisync" /\ rc.request.dry_run) =>
        /\ \A i \in DOMAIN rc.ran.cmds : "--dry-run" \in Range(rc.ran.cmds[i].flags)
        /\ rc.ran.mkdirs = {}

\* the options print_help lists, as given on the command line
DocumentedOptionGiven ==
    \/ rc.argv.config
    \/ rc.argv.mount
    \/ rc.argv.umount
    \/ rc.argv.unknown \in {"--check", "--bisync"}

\* C16: no option listed in the help ends in the help-and-exit-1 outcome:
\* --config, --mount, --umount, --check and --bisync are each dispatched.
C16_HelpOptionsDispatched ==
    (rc.at = "exit" /\ DocumentedOptionGiven /\ ~rc.argv.help) =>
        ~(rc.exit_code = 1 /\ rc.outcome \in {"help", "Invalid arguments! + help"})

\* C17: reset_mount runs the forced unmount of local_path first and the mount
\* of remote on local_path second, never a fusermount after the mount; the
\* mount is launched whether or not the unmount succeeded, and the value
\* returned is the mount's.
C17_ResetMount ==
    rc.request.op = "reset" =>
        /\ Len(rc.ran.cmds) >= 2
        /\ rc.ran.cmds[1] = Command("fusermount", "-uz",
                                <<Operand(rc.request.local_path, "")>>, <<>>)
        /\ rc.ran.cmds[2].prog = "rclone"
        /\ rc.ran.cmds[2].verb = "mount"
        /\ rc.ran.cmds[2].operands
             = <<Operand(rc.request.remote, ""), Operand(rc.request.local_path, "")>>
        /\ \A i \in DOMAIN rc.ran.cmds : rc.ran.cmds[i].prog = "fusermount" => i = 1
        /\ SubSeq(rc.ran.cmds, 2, Len(rc.ran.cmds))
             = mount_remote(rc.request.remote, rc.request.local_path, "daemon", TRUE).cmds
        /\ rc.ran.ret
             = mount_remote(rc.request.remote, rc.request.local_path, "daemon", TRUE).ret

\* a reset whose unmount failed and whose mount was launched all the same
C17_Witness ==
    /\ rc.request.op = "reset"
    /\ rc.ran.results[1] = FALSE
    /\ Len(rc.ran.cmds) >= 2
    /\ rc.ran.cmds[2].verb = "mount"

\* ---- the two versions of process_repo ----

SuccessLines ==
    {"  v Clone complete.", "  v Changes committed.", "  v Fetch complete.",
     "  v Pull complete.", "  v Commit complete.", "  v Push complete.",
     "  v Working tree clean", "  v All commits pushed", "  v No untracked files",
     "  v No ignored files"}

FailureLines ==
    {"  x Clone failed.", "  x Clone failed: {output}", "  x Commit failed.",
     "  x Fetch failed.", "  x Pull failed.", "  x Pull failed: {output[:200]}",
     "  x Push failed."}

WarningLines ==
    {"  ! Has uncommitted changes", "  ! Has {unpushed} unpushed commit(s)",
     "  ! Branch does not track a remote", "  ! Has {n} untracked file(s)",
     "  ! Has {n} ignored file(s)", "  ! Repository not cloned yet"}

VerdictLines == SuccessLines \cup FailureLines \cup WarningLines

IsVerdict(line) == line.text \in VerdictLines

\* what a log line reports, whatever its wording
Verdict(line) ==
    [kind |-> IF line.text \in SuccessLines THEN "success"
              ELSE IF line.text \in FailureLines THEN "failure" ELSE "warning",
     n |-> line.n]

Verdicts(lines) ==
    LET kept == SelectSeq(lines, IsVerdict)
    IN  [i \in 1..Len(kept) |-> Verdict(kept[i])]

\* one step of a call: the git subcommand, where it ran, what it returned
\* and what the version logs about it
StepOf(ver, e) ==
    [subcommand |-> Head(e.args), dir |-> e.dir, ret |-> e.ret, out |-> e.out,
     report |-> Verdicts(Post(ver, call.action, e.site, [ret |-> e.ret, out |-> e.out]))]

StepsOf(ver, tr) == [i \in 1..Len(tr) |-> StepOf(ver, tr[i])]

OtherVersion == IF call.ver = GclNew THEN GclOld ELSE GclNew

\* what git returned in the call that has been made, site by site, and
\* fetch_result for a fetch that this call did not make; a site neither
\* version reaches with these results is never asked for
SameGit(fetch_result) ==
    [site \in Sites |->
        IF \E i \in 1..Len(trace) : trace[i].site = site
        THEN LET i == CHOOSE i \in 1..Len(trace) : trace[i].site = site
             IN  [ret |-> trace[i].ret, out |-> trace[i].out]
        ELSE IF site = "fetch" THEN fetch_result
        ELSE [ret |-> 0, out |-> 0]]

\* the results when no fetch has to be supplied: the call made its own
\* fetch, or its action has none in either file
NotFetched == [ret |-> 0, out |-> 0]

\* the same call made by the other file, git returning the same
OtherTrace(fetch_result) ==
    process_repo(OtherVersion, call.action, call.strategy, First(call.action),
                 SameGit(fetch_result))

FetchAt(tr) ==
    IF \E i \in 1..Len(tr) : tr[i].site = "fetch"
    THEN CHOOSE i \in 1..Len(tr) : tr[i].site = "fetch"
    ELSE 0

\* the newer sync is the older one with a fetch put right before the pull,
\* and nothing after the fetch when it fails
DiffersByFetch(newer, older) ==
    LET k == FetchAt(newer)
        n == StepsOf(GclNew, newer)
        o == StepsOf(GclOld, older)
    IN  /\ FetchAt(older) = 0
        /\ IF k = 0
           THEN n = o /\ \A i \in 1..Len(older) : older[i].site # "pull"
           ELSE /\ Len(older) >= k
                /\ SubSeq(n, 1, k - 1) = SubSeq(o, 1, k - 1)
                /\ n[k].subcommand = "fetch"
                /\ o[k].subcommand = "pull"
                /\ \A i \in 1..Len(newer) : newer[i].site = "fetch" => i = k
                /\ IF newer[k].ret = 0
                   THEN SubSeq(n, k + 1, Len(n)) = SubSeq(o, k, Len(o))
                   ELSE Len(newer) = k /\ n[k].report = <<Verdict(L("  x Fetch failed."))>>

\* C21: for a repository whose directory exists, process_repo of Git/gcl.py
\* and of Git/gcl/gcl.py, given the same results of git, run the same git
\* subcommands in the same order and report the same success or failure of
\* each, for push, pull, fetch, status, untracked and ignored; for sync the
\* newer one differs only by a fetch put before the pull, after whose failure
\* it stops.
C21_SameGitSubcommands ==
    (Returned /\ call.is_dir) =>
        IF call.action # "sync"
        THEN StepsOf(OtherVersion, OtherTrace(NotFetched)) = StepsOf(call.ver, trace)
        ELSE IF call.ver = GclNew
        THEN DiffersByFetch(trace, OtherTrace(NotFetched))
        ELSE \A fetch_result \in SiteOutcomes("fetch") :
                DiffersByFetch(OtherTrace(fetch_result), trace)

\* a sync of the older file that got as far as its push, and a pull of either
\* file that failed, are among the calls compared; this one is the sync
C21_Witness ==
    /\ Returned
    /\ call.is_dir
    /\ call.ver = GclOld
    /\ call.action = "sync"
    /\ Len(trace) >= 1
    /\ trace[Len(trace)].site = "push"
    /\ \E i \in 1..Len(trace) : trace[i].site = "commit1"

====
